---- MODULE Spec2Model ----
(***************************************************************************)
(* A Nerd's Coffee Log (PADS_Final_Exam.py): the DataStorage layer with    *)
(* its JSON document, the brew-session bookkeeping of main(), and the      *)
(* two-thread brew_timer().                                                *)
(*                                                                         *)
(* Strings that the program lower-cases (producer, name, the keys of the   *)
(* collection) are sequences of one-character strings, so that str.lower() *)
(* and the f-string that builds the key are computed character by          *)
(* character.  Other strings are opaque.                                   *)
(*                                                                         *)
(* A decoded JSON value is a record tagged with its Python type:           *)
(*   [t |-> "dict", v |-> ...]  [t |-> "list", v |-> <<...>>]              *)
(*   [t |-> "str", v |-> s]     [t |-> "int", v |-> n]  [t |-> "NoneType"] *)
(* A dict with fixed field names holds under v a function from field names;*)
(* the coffee_beans dict, whose keys are data, holds under items its       *)
(* (key, value) pairs in document order: [t |-> "dict", items |-> <<...>>].*)
(* The in-memory collection self.coffees is such a sequence of [key, bean] *)
(* pairs too (a Python dict keeps insertion order).                        *)
(***************************************************************************)
EXTENDS Integers, Sequences, FiniteSets, TLC

VARIABLES
    file,         \* the backing document brewing_data.json
    coffees,      \* DataStorage.coffees
    status,       \* "running", or "crashed" once an exception left main()
    coffee_bean,  \* main(): the key of the record get_or_create_coffee returned
    session,      \* main(): the BrewSession under construction, or None
    main_pours,   \* main(): the list brew_timer() returned
    call,         \* the last operation performed, its arguments and result
    now,          \* brew_timer: the clock time.time() reads, in ticks
    start_time,   \* brew_timer: start_time
    last_pour_time, \* brew_timer: last_pour_time
    stop_timer,   \* brew_timer: stop_timer
    pours,        \* brew_timer: pours
    pcMain,       \* brew_timer: position of the foreground loop
    pcDisp,       \* brew_timer: position of display_timer
    wake,         \* display_timer: the time its sleep(1) ends
    disp,         \* display_timer: total_elapsed, pour_elapsed and the lines printed
    hist          \* brew_timer: the signals received and the marks set, for stating the claims

storeVars == <<file, coffees, status, coffee_bean, session, main_pours, call>>
timerVars == <<now, start_time, last_pour_time, stop_timer, pours, pcMain, pcDisp, wake, disp, hist>>
vars == <<file, coffees, status, coffee_bean, session, main_pours, call,
          now, start_time, last_pour_time, stop_timer, pours, pcMain, pcDisp, wake, disp, hist>>

None == [t |-> "NoneType"]

(***************************************************************************)
(* Strings and the identity key                                            *)
(***************************************************************************)

\* str.lower() on one character
LowerChar(c) ==
    CASE c = "A" -> "a"
      [] c = "B" -> "b"
      [] c = "D" -> "d"
      [] OTHER -> c

\* str.lower()
Lower(s) == [i \in 1..Len(s) |-> LowerChar(s[i])]

\* str.strip(): the line without its leading and trailing blanks
Strip(s) ==
    LET kept == {i \in 1..Len(s) : s[i] # " "}
    IN  IF kept = {} THEN <<>>
        ELSE SubSeq(s, CHOOSE i \in kept : \A j \in kept : i <= j,
                       CHOOSE i \in kept : \A j \in kept : i >= j)

\* a plausible slip: the key is built without lower-casing
CoffeeKeyCaseSensitive(producer, name) == producer \o <<"|">> \o name

\* f"{producer.lower()}|{name.lower()}"
CoffeeKey(producer, name) == Lower(producer) \o <<"|">> \o Lower(name)

(***************************************************************************)
(* The ordered dict self.coffees                                           *)
(***************************************************************************)

Keys(d) == {d[i].key : i \in 1..Len(d)}

IndexOf(d, key) == CHOOSE i \in 1..Len(d) : d[i].key = key

\* d[key]
Lookup(d, key) == d[IndexOf(d, key)].bean

\* d[key] = bean
Store(d, key, bean) ==
    IF key \in Keys(d)
    THEN [d EXCEPT ![IndexOf(d, key)].bean = bean]
    ELSE Append(d, [key |-> key, bean |-> bean])

(***************************************************************************)
(* Coffee, SpecificCoffee, BrewSession                                     *)
(***************************************************************************)

SpecificCoffee(producer, name, country, method, grind_size) ==
    [producer |-> producer, name |-> name, country |-> country,
     method |-> method, grind_size |-> grind_size, brew_sessions |-> <<>>]

\* a plausible slip: the list holds the latest session only
add_brew_session_replacing(bean, brew_session) ==
    [bean EXCEPT !.brew_sessions = <<brew_session>>]

add_brew_session(bean, brew_session) ==
    [bean EXCEPT !.brew_sessions = Append(@, brew_session)]

BrewSession == [pour_times |-> <<>>, notes |-> "", rating |-> 0]

record_pour(s, weight, pour_time) ==
    [s EXCEPT !.pour_times = Append(@, [weight |-> weight, time |-> pour_time])]

complete_brew(s, rating, notes) == [s EXCEPT !.rating = rating, !.notes = notes]

(***************************************************************************)
(* JSON values                                                             *)
(***************************************************************************)

JDict(v) == [t |-> "dict", v |-> v]
JItems(items) == [t |-> "dict", items |-> items]
JList(v) == [t |-> "list", v |-> v]
JStr(v) == [t |-> "str", v |-> v]
JInt(v) == [t |-> "int", v |-> v]

\* the Python value of a decoded JSON value: lists and dicts element by element
RECURSIVE Py(_)
Py(j) ==
    CASE j.t = "list" -> [i \in 1..Len(j.v) |-> Py(j.v[i])]
      [] j.t = "dict" -> [k \in DOMAIN j.v |-> Py(j.v[k])]
      [] j.t = "NoneType" -> None
      [] OTHER -> j.v

Ok(val) == [exn |-> "none", val |-> val]
Raise(exn) == [exn |-> exn, val |-> None]

\* obj[field]
Subscript(obj, field) ==
    IF obj.t = "dict"
    THEN IF field \in DOMAIN obj.v THEN Ok(obj.v[field]) ELSE Raise("KeyError")
    ELSE Raise("TypeError")

\* obj.get(field, default)
Get(obj, field, default) ==
    IF obj.t = "dict"
    THEN IF field \in DOMAIN obj.v THEN Ok(obj.v[field]) ELSE Ok(default)
    ELSE Raise("AttributeError")

\* a plausible slip: to_dict leaves the notes out
to_dict_without_notes(s) ==
    JDict([pour_times |-> JList([i \in 1..Len(s.pour_times) |->
                                   JDict([weight |-> JInt(s.pour_times[i].weight),
                                          time |-> JInt(s.pour_times[i].time)])]),
           rating |-> JInt(s.rating)])

\* BrewSession.to_dict, as json.dump writes it
to_dict(s) ==
    JDict([pour_times |-> JList([i \in 1..Len(s.pour_times) |->
                                   JDict([weight |-> JInt(s.pour_times[i].weight),
                                          time |-> JInt(s.pour_times[i].time)])]),
           notes |-> JStr(s.notes),
           rating |-> JInt(s.rating)])

\* BrewSession.from_dict
from_dict(data) ==
    IF data.t # "dict"
    THEN Raise("AttributeError")
    ELSE Ok([pour_times |-> Py(Get(data, "pour_times", JList(<<>>)).val),
             notes |-> Py(Get(data, "notes", JStr("")).val),
             rating |-> Py(Get(data, "rating", JInt(0)).val)])

(***************************************************************************)
(* DataStorage                                                             *)
(***************************************************************************)

Absent == [kind |-> "absent"]

\* the items of one coffee_beans entry, as save_data builds them
bean_data(coffee_bean_) ==
    JDict([coffee |-> JDict([producer |-> JStr(coffee_bean_.producer),
                             name |-> JStr(coffee_bean_.name),
                             country |-> JStr(coffee_bean_.country),
                             method |-> JStr(coffee_bean_.method),
                             grind_size |-> JStr(coffee_bean_.grind_size)]),
           brews |-> JList([i \in 1..Len(coffee_bean_.brew_sessions) |->
                              to_dict(coffee_bean_.brew_sessions[i])])])

\* DataStorage.save_data: the document json.dump writes
save_data(cs) ==
    [kind |-> "json",
     json |-> JDict([coffee_beans |->
                 JItems([i \in 1..Len(cs) |->
                           [key |-> cs[i].key, value |-> bean_data(cs[i].bean)]])])]

\* how lines 164-165 can fail: open(self.filename, "w") raises and the document is
\* untouched, or open has truncated the document and json.dump or the closing of
\* the file raises with nothing, or only a prefix of the text, written
WriteFailures == {"open", "write_none", "write_part"}

\* the document a save_data that raised leaves behind
failed_save(f, outcome) ==
    CASE outcome = "open" -> f
      [] outcome = "write_none" -> [kind |-> "blank"]
      [] OTHER -> [kind |-> "notjson"]

\* the exception of the first result that raised, "none" when none did
FirstExn(rs) ==
    IF \E i \in 1..Len(rs) : rs[i].exn # "none"
    THEN rs[CHOOSE i \in 1..Len(rs) :
              /\ rs[i].exn # "none"
              /\ \A j \in 1..(i - 1) : rs[j].exn = "none"].exn
    ELSE "none"

\* for brew_data in value.get("brews", []): session = BrewSession.from_dict(brew_data)
LoadBrews(brews) ==
    CASE brews.t = "list" ->
            LET rs == [i \in 1..Len(brews.v) |-> from_dict(brews.v[i])]
            IN  IF FirstExn(rs) # "none"
                THEN Raise(FirstExn(rs))
                ELSE Ok([i \in 1..Len(rs) |-> rs[i].val])
      [] brews.t \in {"NoneType", "int"} -> Raise("TypeError")
      [] OTHER -> IF brews.v = <<>> THEN Ok(<<>>) ELSE Raise("AttributeError")

\* the body of the loop of _load_from_new_structure for one (key, value) item
LoadItem(value) ==
    LET coffee_info == Subscript(value, "coffee")
        fields == [i \in 1..5 |->
                     Subscript(coffee_info.val,
                               <<"producer", "name", "country", "method", "grind_size">>[i])]
        brews == LoadBrews(Get(value, "brews", JList(<<>>)).val)
    IN  IF coffee_info.exn # "none" THEN Raise(coffee_info.exn)
        ELSE IF FirstExn(fields) # "none" THEN Raise(FirstExn(fields))
        ELSE IF brews.exn # "none" THEN Raise(brews.exn)
        ELSE Ok([SpecificCoffee(Py(fields[1].val), Py(fields[2].val), Py(fields[3].val),
                                Py(fields[4].val), Py(fields[5].val))
                   EXCEPT !.brew_sessions = brews.val])

RECURSIVE LoadItems(_, _, _)
LoadItems(items, i, acc) ==
    IF i > Len(items) THEN Ok(acc)
    ELSE LET r == LoadItem(items[i].value)
         IN  IF r.exn # "none" THEN Raise(r.exn)
             ELSE LoadItems(items, i + 1, Store(acc, items[i].key, r.val))

\* DataStorage._load_from_new_structure
load_from_new_structure(raw_data) ==
    LET coffee_beans == Get(raw_data, "coffee_beans", JItems(<<>>)).val
    IN  IF coffee_beans.t # "dict" THEN Raise("AttributeError")
        ELSE LoadItems(coffee_beans.items, 1, <<>>)

\* a plausible slip: every legacy entry starts a new record under its key
ConvertEntryReplacing(acc, brew) ==
    LET coffee_info == Subscript(brew, "coffee")
        producer == Subscript(coffee_info.val, "producer")
        name == Subscript(coffee_info.val, "name")
        sc == SpecificCoffee(producer.val.v, name.val.v,
                             Py(Get(coffee_info.val, "country", JStr("")).val),
                             Py(Get(coffee_info.val, "method", JStr("")).val),
                             Py(Get(coffee_info.val, "grind_size", JStr("")).val))
        new_session == [pour_times |-> Py(Get(brew, "pour_times", JList(<<>>)).val),
                        notes |-> Py(Get(brew, "notes", JStr("")).val),
                        rating |-> Py(Get(brew, "rating", JInt(0)).val)]
    IN  IF coffee_info.exn # "none" THEN Raise(coffee_info.exn)
        ELSE IF producer.exn # "none" THEN Raise(producer.exn)
        ELSE IF name.exn # "none" THEN Raise(name.exn)
        ELSE IF producer.val.t # "str" \/ name.val.t # "str" THEN Raise("AttributeError")
        ELSE Ok(Store(acc, CoffeeKey(producer.val.v, name.val.v),
                      add_brew_session(sc, new_session)))

\* the body of the loop of _convert_old_data for one legacy entry
ConvertEntry(acc, brew) ==
    LET coffee_info == Subscript(brew, "coffee")
        producer == Subscript(coffee_info.val, "producer")
        name == Subscript(coffee_info.val, "name")
        country == Get(coffee_info.val, "country", JStr("")).val
        method == Get(coffee_info.val, "method", JStr("")).val
        grind_size == Get(coffee_info.val, "grind_size", JStr("")).val
        key == CoffeeKey(producer.val.v, name.val.v)
        sc == IF key \in Keys(acc) THEN Lookup(acc, key)
              ELSE SpecificCoffee(producer.val.v, name.val.v, Py(country), Py(method),
                                  Py(grind_size))
        new_session == [pour_times |-> Py(Get(brew, "pour_times", JList(<<>>)).val),
                        notes |-> Py(Get(brew, "notes", JStr("")).val),
                        rating |-> Py(Get(brew, "rating", JInt(0)).val)]
    IN  IF coffee_info.exn # "none" THEN Raise(coffee_info.exn)
        ELSE IF producer.exn # "none" THEN Raise(producer.exn)
        ELSE IF name.exn # "none" THEN Raise(name.exn)
        ELSE IF producer.val.t # "str" \/ name.val.t # "str" THEN Raise("AttributeError")
        ELSE Ok(Store(acc, key, add_brew_session(sc, new_session)))

RECURSIVE ConvertEntries(_, _, _)
ConvertEntries(old_data_list, i, acc) ==
    IF i > Len(old_data_list) THEN Ok(acc)
    ELSE LET r == ConvertEntry(acc, old_data_list[i])
         IN  IF r.exn # "none" THEN Raise(r.exn)
             ELSE ConvertEntries(old_data_list, i + 1, r.val)

\* DataStorage._convert_old_data
convert_old_data(old_data_list) == ConvertEntries(old_data_list, 1, <<>>)

\* a plausible slip: the except clause names json.JSONDecodeError alone
load_data_without_OSError(f) ==
    CASE f.kind = "absent" -> Ok(<<>>) @@ [msg |-> FALSE]
      [] f.kind = "oserror" -> Raise("OSError") @@ [msg |-> FALSE]
      [] f.kind = "undecodable" -> Raise("UnicodeDecodeError") @@ [msg |-> FALSE]
      [] f.kind = "blank" -> Ok(<<>>) @@ [msg |-> FALSE]
      [] f.kind = "notjson" -> Ok(<<>>) @@ [msg |-> TRUE]
      [] OTHER ->
            LET raw_data == f.json
            IN  IF raw_data.t = "dict" /\ "coffee_beans" \in DOMAIN raw_data.v
                THEN load_from_new_structure(raw_data) @@ [msg |-> FALSE]
                ELSE IF raw_data.t = "list"
                THEN convert_old_data(raw_data.v) @@ [msg |-> FALSE]
                ELSE Ok(<<>>) @@ [msg |-> FALSE]

\* DataStorage.load_data: [exn, val, msg], msg telling whether the diagnostic was printed
load_data(f) ==
    CASE f.kind = "absent" -> Ok(<<>>) @@ [msg |-> FALSE]
      [] f.kind = "oserror" -> Ok(<<>>) @@ [msg |-> TRUE]
      [] f.kind = "undecodable" -> Raise("UnicodeDecodeError") @@ [msg |-> FALSE]
      [] f.kind = "blank" -> Ok(<<>>) @@ [msg |-> FALSE]
      [] f.kind = "notjson" -> Ok(<<>>) @@ [msg |-> TRUE]
      [] OTHER ->
            LET raw_data == f.json
            IN  IF raw_data.t = "dict" /\ "coffee_beans" \in DOMAIN raw_data.v
                THEN load_from_new_structure(raw_data) @@ [msg |-> FALSE]
                ELSE IF raw_data.t = "list"
                THEN convert_old_data(raw_data.v) @@ [msg |-> FALSE]
                ELSE Ok(<<>>) @@ [msg |-> FALSE]

\* a plausible slip: an existing record is overwritten by the new arguments
get_or_create_coffee_overwriting(cs, producer, name, country, method, grind_size) ==
    Store(cs, CoffeeKey(producer, name),
          SpecificCoffee(producer, name, country, method, grind_size))

\* DataStorage.get_or_create_coffee: the collection after the call
get_or_create_coffee(cs, producer, name, country, method, grind_size) ==
    IF CoffeeKey(producer, name) \notin Keys(cs)
    THEN Store(cs, CoffeeKey(producer, name),
               SpecificCoffee(producer, name, country, method, grind_size))
    ELSE cs

Found(key) == [found |-> TRUE, key |-> key]
NotFound == [found |-> FALSE, key |-> <<>>]

\* a plausible slip: self.coffees[key] in place of self.coffees.get(key, None), with
\* the collection a defaultdict: the lookup of an absent key yields a record
find_coffee_brews_subscripting(cs, producer, name) == Found(CoffeeKey(producer, name))

\* DataStorage.find_coffee_brews: the record found, named by its key, or None
find_coffee_brews(cs, producer, name) ==
    IF CoffeeKey(producer, name) \in Keys(cs)
    THEN Found(CoffeeKey(producer, name))
    ELSE NotFound

(***************************************************************************)
(* The inputs main() reads                                                 *)
(***************************************************************************)

\* (producer, name) as typed: two casings of one coffee, and two coffees whose
\* producer or name holds the separator
IdPool ==
    { [producer |-> <<"a">>, name |-> <<"b">>],
      [producer |-> <<"A">>, name |-> <<"B">>],
      [producer |-> <<"a", "|">>, name |-> <<"b">>],
      [producer |-> <<"a">>, name |-> <<"|", "b">>] }

AttrPool ==
    { [country |-> "Ethiopia", method |-> "Washed", grind_size |-> "Medium"],
      [country |-> "", method |-> "Natural", grind_size |-> "Fine"] }

\* what brew_timer() returns: at least the trailing entry
TimerResults == { <<30>>, <<30, 45>> }

\* a line typed at a numeric prompt: whether str.isdigit() holds of it, and its int()
Typed(digits, val) == [digits |-> digits, val |-> val]
WeightInputs == { Typed(TRUE, 60), Typed(FALSE, 0) }
RatingInputs == { Typed(TRUE, 0), Typed(TRUE, 1), Typed(TRUE, 100), Typed(TRUE, 101),
                  Typed(FALSE, 0) }
NotesPool == { "", "bright, floral" }

\* the brew sessions one run of the model records
MaxSessions == 2

TotalSessions(cs) ==
    LET RECURSIVE Sum(_)
        Sum(i) == IF i = 0 THEN 0 ELSE Len(cs[i].bean.brew_sessions) + Sum(i - 1)
    IN  Sum(Len(cs))

(***************************************************************************)
(* main(): the steps between two prompts, and the DataStorage calls        *)
(***************************************************************************)

timerIdle == UNCHANGED timerVars

\* choice 1, lines 255-265: the coffee is looked up or created, the session is
\* created and brew_timer() returns
BrewBegin(id, attr, timed) ==
    /\ status = "running"
    /\ session = None
    /\ TotalSessions(coffees) < MaxSessions
    /\ coffees' = get_or_create_coffee(coffees, id.producer, id.name,
                                       attr.country, attr.method, attr.grind_size)
    /\ coffee_bean' = Found(CoffeeKey(id.producer, id.name))
    /\ session' = BrewSession
    /\ main_pours' = timed
    /\ call' = [op |-> "get_or_create_coffee", producer |-> id.producer, name |-> id.name,
                country |-> attr.country, method |-> attr.method,
                grind_size |-> attr.grind_size, ret |-> coffee_bean']
    /\ UNCHANGED <<file, status>>
    /\ timerIdle

\* lines 271-279: one answer to the weight prompt
EnterWeight(weight_str) ==
    /\ status = "running"
    /\ session # None
    /\ Len(session.pour_times) < Len(main_pours)
    /\ session' = IF weight_str.digits
                  THEN record_pour(session, weight_str.val,
                                   main_pours[Len(session.pour_times) + 1])
                  ELSE session
    /\ call' = [op |-> "record_pour", accepted |-> weight_str.digits]
    /\ UNCHANGED <<file, coffees, status, coffee_bean, main_pours>>
    /\ timerIdle

\* a plausible slip: any number is taken as a rating
AnyNumber(rating_str) == rating_str.digits

\* the test of the rating loop, line 283
ValidRating(rating_str) == rating_str.digits /\ 1 <= rating_str.val /\ rating_str.val <= 100

\* lines 282-285: an answer to the rating prompt that is asked again
RejectRating(rating_str) ==
    /\ status = "running"
    /\ session # None
    /\ Len(session.pour_times) = Len(main_pours)
    /\ ~ValidRating(rating_str)
    /\ call' = [op |-> "input_rating", accepted |-> FALSE]
    /\ UNCHANGED <<file, coffees, status, coffee_bean, session, main_pours>>
    /\ timerIdle

\* lines 282-293: the rating and the notes are read, the session is completed,
\* added to the coffee and the collection is saved
FinishBrew(rating_str, notes) ==
    /\ status = "running"
    /\ session # None
    /\ Len(session.pour_times) = Len(main_pours)
    /\ ValidRating(rating_str)
    /\ LET done == complete_brew(session, rating_str.val, notes)
       IN  /\ coffees' = Store(coffees, coffee_bean.key,
                               add_brew_session(Lookup(coffees, coffee_bean.key), done))
           /\ file' = save_data(coffees')
    /\ session' = None
    /\ main_pours' = <<>>
    /\ coffee_bean' = NotFound
    /\ call' = [op |-> "save_data"]
    /\ UNCHANGED status
    /\ timerIdle

\* lines 282-292 when save_data raises: the session is in the collection, the
\* OSError leaves main()
FinishBrewSaveFails(rating_str, notes, outcome) ==
    /\ status = "running"
    /\ session # None
    /\ Len(session.pour_times) = Len(main_pours)
    /\ ValidRating(rating_str)
    /\ LET done == complete_brew(session, rating_str.val, notes)
       IN  coffees' = Store(coffees, coffee_bean.key,
                            add_brew_session(Lookup(coffees, coffee_bean.key), done))
    /\ file' = failed_save(file, outcome)
    /\ status' = "crashed"
    /\ session' = None
    /\ main_pours' = <<>>
    /\ coffee_bean' = NotFound
    /\ call' = [op |-> "save_data", exn |-> "OSError"]
    /\ timerIdle

\* choice 3, lines 320-323
Find(id) ==
    /\ status = "running"
    /\ session = None
    /\ call' = [op |-> "find_coffee_brews", producer |-> id.producer, name |-> id.name,
                ret |-> find_coffee_brews(coffees, id.producer, id.name)]
    /\ UNCHANGED <<file, coffees, status, coffee_bean, session, main_pours>>
    /\ timerIdle

\* DataStorage.save_data called on its own
Save ==
    /\ status = "running"
    /\ session = None
    /\ file' = save_data(coffees)
    /\ call' = [op |-> "save_data"]
    /\ UNCHANGED <<coffees, status, coffee_bean, session, main_pours>>
    /\ timerIdle

\* DataStorage.save_data called on its own, raising OSError to its caller
SaveFails(outcome) ==
    /\ status = "running"
    /\ session = None
    /\ file' = failed_save(file, outcome)
    /\ status' = "crashed"
    /\ call' = [op |-> "save_data", exn |-> "OSError"]
    /\ UNCHANGED <<coffees, coffee_bean, session, main_pours>>
    /\ timerIdle

\* the process ends and main() starts again: storage = DataStorage(), lines 71-73
Restart ==
    /\ status = "running"
    /\ LET loaded == load_data(file)
       IN  /\ coffees' = IF loaded.exn = "none" THEN loaded.val ELSE <<>>
           /\ status' = IF loaded.exn = "none" THEN "running" ELSE "crashed"
           /\ call' = [op |-> "load_data", exn |-> loaded.exn, msg |-> loaded.msg]
    /\ session' = None
    /\ main_pours' = <<>>
    /\ coffee_bean' = NotFound
    /\ UNCHANGED file
    /\ timerIdle

TimerInit ==
    /\ now = 0
    /\ start_time = 0
    /\ last_pour_time = 0
    /\ stop_timer = FALSE
    /\ pours = <<>>
    /\ pcMain = "idle"
    /\ pcDisp = "idle"
    /\ wake = 0
    /\ disp = [total_elapsed |-> 0, pour_elapsed |-> 0, printed |-> 0]
    /\ hist = [signals |-> <<>>, marks |-> <<>>, finish |-> 0, total |-> 0, last_input |-> <<>>]

StoreInit ==
    /\ file = Absent
    /\ coffees = <<>>
    /\ status = "running"
    /\ coffee_bean = NotFound
    /\ session = None
    /\ main_pours = <<>>
    /\ call = [op |-> "DataStorage"]

Init == StoreInit /\ TimerInit

Next ==
    \/ \E id \in IdPool, attr \in AttrPool, timed \in TimerResults : BrewBegin(id, attr, timed)
    \/ \E weight_str \in WeightInputs : EnterWeight(weight_str)
    \/ \E rating_str \in RatingInputs : RejectRating(rating_str)
    \/ \E rating_str \in RatingInputs, notes \in NotesPool : FinishBrew(rating_str, notes)
    \/ \E id \in IdPool : Find(id)
    \/ \E rating_str \in RatingInputs, notes \in NotesPool, outcome \in WriteFailures :
          FinishBrewSaveFails(rating_str, notes, outcome)
    \/ Save
    \/ \E outcome \in WriteFailures : SaveFails(outcome)
    \/ Restart

Spec == Init /\ [][Next]_vars

(***************************************************************************)
(* load_data on the documents it may find: SpecLoad                        *)
(***************************************************************************)

\* the entries of a legacy list and the items of a coffee_beans dict that a document holds
MaxLegacy == 3
MaxBeans == 2

coffee_of(id, attr) ==
    JDict([producer |-> JStr(id.producer), name |-> JStr(id.name),
           country |-> JStr(attr.country), method |-> JStr(attr.method),
           grind_size |-> JStr(attr.grind_size)])

brew_of(weight, time, notes, rating) ==
    [pour_times |-> JList(<<JDict([weight |-> JInt(weight), time |-> JInt(time)])>>),
     notes |-> JStr(notes), rating |-> JInt(rating)]

\* legacy entries the migration accepts: a full one, and one with only producer and name
LegacyGood ==
    { JDict([coffee |-> coffee_of(id, CHOOSE a \in AttrPool : a.country # "")]
            @@ brew_of(60, 30, "bright, floral", 87)) : id \in IdPool }
    \cup
    { JDict([coffee |-> JDict([producer |-> JStr(id.producer), name |-> JStr(id.name)])]) :
        id \in IdPool }

\* malformed legacy entries
LegacyBad ==
    { JDict(brew_of(60, 30, "", 87)),
      JDict([coffee |-> JDict([producer |-> JStr(<<"a">>)])]),
      JDict([coffee |-> JStr("a b")]),
      JDict([coffee |-> JDict([producer |-> JInt(7), name |-> JStr(<<"b">>)])]),
      JStr("a b") }

LegacyDocs ==
    { JList(q) : q \in UNION { [1..n -> LegacyGood \cup LegacyBad] : n \in 0..MaxLegacy } }

\* values of coffee_beans the loader accepts
BeanGood ==
    { JDict([coffee |-> coffee_of(id, attr),
             brews |-> JList(<<JDict(brew_of(60, 30, "bright, floral", 87)),
                               JDict([notes |-> JStr("")])>>)]) :
        id \in IdPool, attr \in AttrPool }
    \cup
    { JDict([coffee |-> coffee_of(id, CHOOSE a \in AttrPool : a.country = "")]) :
        id \in IdPool }

\* malformed values of coffee_beans
BeanBad ==
    { JDict([brews |-> JList(<<>>)]),
      JDict([coffee |-> JDict([producer |-> JStr(<<"a">>), name |-> JStr(<<"b">>),
                               country |-> JStr(""), method |-> JStr("")])]),
      JDict([coffee |-> None]),
      JDict([coffee |-> coffee_of(CHOOSE id \in IdPool : TRUE, CHOOSE a \in AttrPool : TRUE),
             brews |-> None]),
      JDict([coffee |-> coffee_of(CHOOSE id \in IdPool : TRUE, CHOOSE a \in AttrPool : TRUE),
             brews |-> JList(<<JStr("a b")>>)]),
      JList(<<>>) }

\* keys found in a document: those the program writes, and one it would not write
DocKeys == { CoffeeKey(id.producer, id.name) : id \in IdPool } \cup { <<"X">> }

BeanItems == [key : DocKeys, value : BeanGood \cup BeanBad]

NewDocs ==
    { JDict([coffee_beans |-> JItems(items)]) :
        items \in { q \in UNION { [1..n -> BeanItems] : n \in 0..MaxBeans } :
                      \A i, j \in 1..Len(q) : i # j => q[i].key # q[j].key } }
    \cup
    { JDict([coffee_beans |-> JList(<<>>)]), JDict([coffee_beans |-> None]) }

OtherDocs ==
    { JInt(5), JStr("a b"), None, JDict(<<>>), JDict([version |-> JInt(1)]) }

DocPool ==
    { [kind |-> k] : k \in {"absent", "oserror", "undecodable", "blank", "notjson"} }
    \cup
    { [kind |-> "json", json |-> j] : j \in LegacyDocs \cup NewDocs \cup OtherDocs }

InitLoad ==
    /\ file \in DocPool
    /\ coffees = <<>>
    /\ status = "running"
    /\ coffee_bean = NotFound
    /\ session = None
    /\ main_pours = <<>>
    /\ call = [op |-> "DataStorage"]
    /\ TimerInit

NextLoad == Restart

SpecLoad == InitLoad /\ [][NextLoad]_vars

(***************************************************************************)
(* brew_timer(): the foreground loop and the display thread: SpecTimer     *)
(***************************************************************************)

\* the clock advances in ticks; a second is TicksPerSec of them
TicksPerSec == 2
\* the clock stops at MaxTime; at most MaxPours pours are signalled
MaxTime == 6
MaxPours == 2

\* int(t1 - t0) for clock readings t0 <= t1: whole seconds
IntSeconds(ticks) == ticks \div TicksPerSec

storeIdle == UNCHANGED storeVars

\* the lines typed at the prompt of line 215: Enter alone, a blank and Enter, d, D with
\* a trailing blank, and done
TimerLines == { <<>>, <<" ">>, <<"d">>, <<"D", " ">>, <<"d", "o", "n", "e">> }

\* line 215: user_input = input(...).strip().lower()
user_input(line) == Lower(Strip(line))

\* a plausible slip: the thread is not waited for
NotJoined(pc) == TRUE

\* timer_thread.join() returns once display_timer has returned
Joined(pc) == pc = "done"

\* a plausible slip: every pour is measured from the start of the brew
PourElapsedFromStart(t, start, last) == IntSeconds(t - start)

\* a plausible slip: the pour time the display thread last computed is recorded
PourElapsedFromDisplay(t, start, last) == disp.pour_elapsed

\* int(time.time() - last_pour_time)
PourElapsed(t, start, last) == IntSeconds(t - last)

\* time passes
Tick ==
    /\ now < MaxTime
    /\ now' = now + 1
    /\ UNCHANGED <<start_time, last_pour_time, stop_timer, pours, pcMain, pcDisp, wake,
                   disp, hist>>
    /\ storeIdle

\* lines 193-209: the state is set up and the display thread is started
TimerStart ==
    /\ pcMain = "idle"
    /\ pours' = <<>>
    /\ start_time' = now
    /\ last_pour_time' = now
    /\ stop_timer' = FALSE
    /\ pcDisp' = "test"
    /\ pcMain' = "input"
    /\ hist' = [hist EXCEPT !.marks = <<now>>]
    /\ UNCHANGED <<now, wake, disp>>
    /\ storeIdle

\* lines 215-218: a line that is empty once stripped is read and the pour is recorded
PourSignal(line) ==
    /\ pcMain = "input"
    /\ user_input(line) = <<>>
    /\ Len(hist.signals) < MaxPours
    /\ pours' = Append(pours, PourElapsed(now, start_time, last_pour_time))
    /\ pcMain' = "mark"
    /\ hist' = [hist EXCEPT !.signals = Append(@, now), !.last_input = user_input(line)]
    /\ UNCHANGED <<now, start_time, last_pour_time, stop_timer, pcDisp, wake, disp>>
    /\ storeIdle

\* line 219: last_pour_time = time.time()
Mark ==
    /\ pcMain = "mark"
    /\ last_pour_time' = now
    /\ pcMain' = "input"
    /\ hist' = [hist EXCEPT !.marks = Append(@, now)]
    /\ UNCHANGED <<now, start_time, stop_timer, pours, pcDisp, wake, disp>>
    /\ storeIdle

\* a plausible slip: else in place of the test of line 216, so that every line but
\* the finish signal logs a pour
OtherInputAsPour(line) ==
    /\ pcMain = "input"
    /\ user_input(line) # <<>>
    /\ user_input(line) # <<"d">>
    /\ pours' = Append(pours, PourElapsed(now, start_time, last_pour_time))
    /\ last_pour_time' = now
    /\ hist' = [hist EXCEPT !.last_input = user_input(line)]
    /\ UNCHANGED <<now, start_time, stop_timer, pcMain, pcDisp, wake, disp>>
    /\ storeIdle

\* lines 215-222: a line that once stripped and lower-cased is neither empty nor "d"
\* is read
OtherInput(line) ==
    /\ pcMain = "input"
    /\ user_input(line) # <<>>
    /\ user_input(line) # <<"d">>
    /\ hist' = [hist EXCEPT !.last_input = user_input(line)]
    /\ UNCHANGED <<now, start_time, last_pour_time, stop_timer, pours, pcMain, pcDisp,
                   wake, disp>>
    /\ storeIdle

\* lines 215, 221-225: a line that once stripped and lower-cased is "d" is read, the
\* loop is left and the stop flag is set
FinishSignal(line) ==
    /\ pcMain = "input"
    /\ user_input(line) = <<"d">>
    /\ stop_timer' = TRUE
    /\ pcMain' = "join"
    /\ hist' = [hist EXCEPT !.finish = now, !.last_input = user_input(line)]
    /\ UNCHANGED <<now, start_time, last_pour_time, pours, pcDisp, wake, disp>>
    /\ storeIdle

\* line 226: timer_thread.join() returns
Join ==
    /\ pcMain = "join"
    /\ Joined(pcDisp)
    /\ pcMain' = "final"
    /\ UNCHANGED <<now, start_time, last_pour_time, stop_timer, pours, pcDisp, wake, disp,
                   hist>>
    /\ storeIdle

\* lines 229-230: the final pour is logged
FinalPour ==
    /\ pcMain = "final"
    /\ pours' = Append(pours, PourElapsed(now, start_time, last_pour_time))
    /\ pcMain' = "total"
    /\ UNCHANGED <<now, start_time, last_pour_time, stop_timer, pcDisp, wake, disp, hist>>
    /\ storeIdle

\* lines 232-236: the total is computed and printed and pours is returned
Return ==
    /\ pcMain = "total"
    /\ hist' = [hist EXCEPT !.total = IntSeconds(now - start_time)]
    /\ pcMain' = "returned"
    /\ UNCHANGED <<now, start_time, last_pour_time, stop_timer, pours, pcDisp, wake, disp>>
    /\ storeIdle

\* a plausible slip: the flag is handed to the thread by value, as in
\* threading.Thread(target=display_timer, args=(stop_timer,)), so the loop
\* tests the False it was started with
DispTestOfCopy ==
    /\ pcDisp = "test"
    /\ pcDisp' = "total"
    /\ UNCHANGED <<now, start_time, last_pour_time, stop_timer, pours, pcMain, wake, disp,
                   hist>>
    /\ storeIdle

\* line 200: while not stop_timer
DispTest ==
    /\ pcDisp = "test"
    /\ pcDisp' = IF stop_timer THEN "done" ELSE "total"
    /\ UNCHANGED <<now, start_time, last_pour_time, stop_timer, pours, pcMain, wake, disp,
                   hist>>
    /\ storeIdle

\* line 201
DispTotal ==
    /\ pcDisp = "total"
    /\ disp' = [disp EXCEPT !.total_elapsed = IntSeconds(now - start_time)]
    /\ pcDisp' = "pour"
    /\ UNCHANGED <<now, start_time, last_pour_time, stop_timer, pours, pcMain, wake, hist>>
    /\ storeIdle

\* a plausible slip: the display thread restarts the pour clock itself once it has
\* shown the pour time (nonlocal last_pour_time)
DispPourMarking ==
    /\ pcDisp = "pour"
    /\ disp' = [disp EXCEPT !.pour_elapsed = IntSeconds(now - last_pour_time)]
    /\ last_pour_time' = now
    /\ pcDisp' = "print"
    /\ UNCHANGED <<now, start_time, stop_timer, pours, pcMain, wake, hist>>
    /\ storeIdle

\* line 202
DispPour ==
    /\ pcDisp = "pour"
    /\ disp' = [disp EXCEPT !.pour_elapsed = IntSeconds(now - last_pour_time)]
    /\ pcDisp' = "print"
    /\ UNCHANGED <<now, start_time, last_pour_time, stop_timer, pours, pcMain, wake, hist>>
    /\ storeIdle

\* lines 203-204: the line is printed and time.sleep(1) is entered
DispPrint ==
    /\ pcDisp = "print"
    /\ disp' = [disp EXCEPT !.printed = @ + 1]
    /\ wake' = now + TicksPerSec
    /\ pcDisp' = "sleep"
    /\ UNCHANGED <<now, start_time, last_pour_time, stop_timer, pours, pcMain, hist>>
    /\ storeIdle

\* line 204: time.sleep(1) returns, not before a second has passed
DispWake ==
    /\ pcDisp = "sleep"
    /\ now >= wake
    /\ pcDisp' = "test"
    /\ UNCHANGED <<now, start_time, last_pour_time, stop_timer, pours, pcMain, wake, disp,
                   hist>>
    /\ storeIdle

InitTimer == StoreInit /\ TimerInit

NextTimer ==
    \/ Tick
    \/ TimerStart
    \/ \E line \in TimerLines : PourSignal(line)
    \/ Mark
    \/ \E line \in TimerLines : OtherInput(line)
    \/ \E line \in TimerLines : FinishSignal(line)
    \/ Join
    \/ FinalPour
    \/ Return
    \/ DispTest
    \/ DispTotal
    \/ DispPour
    \/ DispPrint
    \/ DispWake

SpecTimer == InitTimer /\ [][NextTimer]_vars

\* once the stop flag is set, time passes until the sleep(1) the display thread is in
\* has ended, also when the clock of the model has reached MaxTime
SleepTick ==
    /\ now >= MaxTime
    /\ stop_timer
    /\ pcDisp = "sleep"
    /\ now < wake
    /\ now' = now + 1
    /\ UNCHANGED <<start_time, last_pour_time, stop_timer, pours, pcMain, pcDisp, wake,
                   disp, hist>>
    /\ storeIdle

NextTimerFair == NextTimer \/ SleepTick

\* the display thread is scheduled when it can take a step, the foreground is when it
\* is not waiting for input, and time passes; no line has to be typed
SpecTimerFair ==
    /\ InitTimer
    /\ [][NextTimerFair]_vars
    /\ WF_vars(DispTest \/ DispTotal \/ DispPour \/ DispPrint \/ DispWake)
    /\ WF_vars(Join \/ FinalPour \/ Return)
    /\ WF_vars(Tick \/ SleepTick)

(***************************************************************************)
(* Claims about the collection and its document, under Spec                *)
(***************************************************************************)

SessionsOf(cs) ==
    UNION {{cs[i].bean.brew_sessions[j] : j \in 1..Len(cs[i].bean.brew_sessions)} :
              i \in 1..Len(cs)}

\* the same keys, and under each key the same attributes and the same sessions in order
SameCollection(a, b) ==
    /\ Keys(a) = Keys(b)
    /\ \A k \in Keys(a) :
          /\ Lookup(a, k).producer = Lookup(b, k).producer
          /\ Lookup(a, k).name = Lookup(b, k).name
          /\ Lookup(a, k).country = Lookup(b, k).country
          /\ Lookup(a, k).method = Lookup(b, k).method
          /\ Lookup(a, k).grind_size = Lookup(b, k).grind_size
          /\ Lookup(a, k).brew_sessions = Lookup(b, k).brew_sessions

\* C1: a load_data that directly follows a save_data does not raise and yields
\* the collection that was saved: the same keys, the same producer, name,
\* country, method and grind_size per key, and the same brew sessions
\* (pour_times, notes, rating) in the same order.
C1_RoundTrip ==
    [][(call.op = "save_data" /\ call'.op = "load_data")
          => (status' = "running" /\ SameCollection(coffees', coffees))]_vars

\* a collection of two coffees, one with a two-pour session with notes, has been
\* loaded back from the document save_data wrote
C1_Witness ==
    /\ call.op = "load_data"
    /\ Len(coffees) = 2
    /\ \E s \in SessionsOf(coffees) : Len(s.pour_times) = 2 /\ s.notes # ""
    /\ \E s \in SessionsOf(coffees) : Len(s.pour_times) = 1 /\ s.notes = ""

\* the record of cs that (producer, name) names when case is ignored
SameIgnoringCase(bean, producer, name) ==
    /\ Lower(bean.producer) = Lower(producer)
    /\ Lower(bean.name) = Lower(name)

\* C2: when a record was created for (p, n), find_coffee_brews(p', n') with
\* lower(p') = lower(p) and lower(n') = lower(n) returns that record, and
\* get_or_create_coffee(p', n', ...) returns it and creates no record.
C2_KeyNormalization ==
    [][\A i \in 1..Len(coffees) :
          (/\ call'.op \in {"find_coffee_brews", "get_or_create_coffee"}
           /\ SameIgnoringCase(coffees[i].bean, call'.producer, call'.name))
          => /\ call'.ret = Found(coffees[i].key)
             /\ Len(coffees') = Len(coffees)
             /\ coffees'[i].bean.brew_sessions = coffees[i].bean.brew_sessions]_vars

\* find_coffee_brews found, under another casing, a record that holds a session
C2_Witness ==
    /\ call.op = "find_coffee_brews"
    /\ call.ret.found
    /\ Lookup(coffees, call.ret.key).producer # call.producer
    /\ Lookup(coffees, call.ret.key).name # call.name
    /\ Lookup(coffees, call.ret.key).brew_sessions # <<>>

\* C3: get_or_create_coffee on an existing normalized key returns the record
\* and leaves the collection as it was (casing, country, method, grind_size
\* and sessions of the first write); on a new key it inserts exactly one
\* record, with the given attributes and no session, and changes no other.
C3_FirstWriteWins ==
    [][call'.op = "get_or_create_coffee"
          => LET k == Lower(call'.producer) \o <<"|">> \o Lower(call'.name)
             IN  /\ call'.ret = Found(k)
                 /\ k \in Keys(coffees) => coffees' = coffees
                 /\ k \notin Keys(coffees) =>
                       /\ Keys(coffees') = Keys(coffees) \cup {k}
                       /\ Len(coffees') = Len(coffees) + 1
                       /\ \A k2 \in Keys(coffees) : Lookup(coffees', k2) = Lookup(coffees, k2)
                       /\ Lookup(coffees', k) =
                             [producer |-> call'.producer, name |-> call'.name,
                              country |-> call'.country, method |-> call'.method,
                              grind_size |-> call'.grind_size, brew_sessions |-> <<>>]]_vars

\* get_or_create_coffee returned an existing record that holds a session and whose
\* casing and attributes are not those of the call
C3_Witness ==
    /\ call.op = "get_or_create_coffee"
    /\ Lookup(coffees, call.ret.key).producer # call.producer
    /\ Lookup(coffees, call.ret.key).country # call.country
    /\ Lookup(coffees, call.ret.key).method # call.method
    /\ Lookup(coffees, call.ret.key).grind_size # call.grind_size
    /\ Lookup(coffees, call.ret.key).brew_sessions # <<>>

\* C10: the session under construction reads rating 0 until complete_brew, and
\* every session of the collection, completed by main() and possibly saved and
\* loaded since, has an integer rating in 1..100.
C10_RatingBound ==
    /\ session # None => session.rating = 0
    /\ \A s \in SessionsOf(coffees) : s.rating \in 1..100

\* a session rated 100 has been completed and saved, and another is under construction
C10_Witness ==
    /\ call.op = "record_pour"
    /\ session # None /\ session.pour_times # <<>>
    /\ \E s \in SessionsOf(coffees) : s.rating = 100
    /\ file = save_data(coffees)

\* C11: find_coffee_brews returns None when the normalized key of (producer,
\* name) is not in the collection and the record under that key when it is,
\* and in both cases leaves the collection, and the document, as they were.
C11_FindIsPure ==
    [][call'.op = "find_coffee_brews"
          => LET k == Lower(call'.producer) \o <<"|">> \o Lower(call'.name)
             IN  /\ coffees' = coffees
                 /\ file' = file
                 /\ status' = "running"
                 /\ k \notin Keys(coffees) => call'.ret = NotFound
                 /\ k \in Keys(coffees) => call'.ret = Found(k)]_vars

\* find_coffee_brews found nothing in a collection that holds another coffee
C11_Witness ==
    /\ call.op = "find_coffee_brews"
    /\ call.ret = NotFound
    /\ coffees # <<>>
    /\ status = "running"

\* C15 as claimed, for a document that holds a saved coffee: when save_data
\* has returned or raised, the document is the previous one or the complete
\* serialization of the collection; after a save_data that returned it is the
\* serialization of the collection and nothing else; a save_data that raised
\* has left the collection as it was.
C15_AtomicSave ==
    [][(/\ call'.op = "save_data"
        /\ file.kind = "json"
        /\ file.json.v.coffee_beans.items # <<>>)
          => /\ (file' = file \/ file' = save_data(coffees'))
             /\ status' = "running" => file' = save_data(coffees')
             /\ (status' = "crashed" /\ session = None) => coffees' = coffees]_vars

\* q extends p at its end
IsPrefix(p, q) == Len(p) <= Len(q) /\ \A i \in 1..Len(p) : q[i] = p[i]

\* C16: a step on one DataStorage (any step but the start of a new process,
\* which loads the collection anew) removes no key, and under every key the
\* session list before the step is a prefix of the session list after it.
C16_AppendOnly ==
    [][call'.op # "load_data"
          => /\ Keys(coffees) \subseteq Keys(coffees')
             /\ \A k \in Keys(coffees) :
                   IsPrefix(Lookup(coffees, k).brew_sessions,
                            Lookup(coffees', k).brew_sessions)]_vars

\* a second, different session has been added to a coffee and saved
C16_Witness ==
    /\ call.op = "save_data"
    /\ status = "running"
    /\ \E i \in 1..Len(coffees) :
          /\ Len(coffees[i].bean.brew_sessions) = 2
          /\ coffees[i].bean.brew_sessions[1] # coffees[i].bean.brew_sessions[2]

\* C19 as claimed: get_or_create_coffee for a (producer, name) that no record
\* of the collection equals, case ignored, component by component creates a
\* new record and returns it, not a record of another pair.
C19_IdentitySeparation ==
    [][(/\ call'.op = "get_or_create_coffee"
        /\ \A i \in 1..Len(coffees) :
              ~SameIgnoringCase(coffees[i].bean, call'.producer, call'.name))
          => /\ Len(coffees') = Len(coffees) + 1
             /\ SameIgnoringCase(Lookup(coffees', call'.ret.key),
                                 call'.producer, call'.name)]_vars

(***************************************************************************)
(* Claims about load_data, under SpecLoad                                  *)
(***************************************************************************)

\* the documents the fall-back is claimed for: absent, empty, not JSON, unreadable,
\* or JSON that is neither an object with coffee_beans nor a list
FallsBack(f) ==
    \/ f.kind \in {"absent", "blank", "notjson", "oserror"}
    \/ /\ f.kind = "json"
       /\ f.json.t # "list"
       /\ ~(f.json.t = "dict" /\ "coffee_beans" \in DOMAIN f.json.v)

C8_LoadNeverRaises ==
    (call.op = "load_data" /\ file.kind = "json")
        => (call.exn = "none" /\ status = "running")

\* a legacy entry the migration accepts: an object whose coffee is an object with
\* a string producer and a string name
LegacyOk(e) ==
    /\ e.t = "dict" /\ "coffee" \in DOMAIN e.v
    /\ e.v.coffee.t = "dict"
    /\ {"producer", "name"} \subseteq DOMAIN e.v.coffee.v
    /\ e.v.coffee.v.producer.t = "str" /\ e.v.coffee.v.name.t = "str"

LegacyKey(e) ==
    Lower(e.v.coffee.v.producer.v) \o <<"|">> \o Lower(e.v.coffee.v.name.v)

\* field of the object d, or the default when it is absent
FieldOr(d, field, default) == IF field \in DOMAIN d THEN Py(d[field]) ELSE default

LegacySession(e) ==
    [pour_times |-> FieldOr(e.v, "pour_times", <<>>),
     notes |-> FieldOr(e.v, "notes", ""),
     rating |-> FieldOr(e.v, "rating", 0)]

\* the sessions of the entries of list l whose key is k, in list order
RECURSIVE SessionsWithKey(_, _)
SessionsWithKey(l, k) ==
    IF l = <<>> THEN <<>>
    ELSE (IF LegacyKey(Head(l)) = k THEN <<LegacySession(Head(l))>> ELSE <<>>)
         \o SessionsWithKey(Tail(l), k)

\* C9: loading a legacy list of accepted entries yields exactly one record per
\* distinct key lower(producer)|lower(name); the record holds one session per
\* entry with that key, in list order, and the producer, name, country, method
\* and grind_size of the first such entry, the last three "" when absent.
C9_LegacyMigration ==
    (/\ call.op = "load_data"
     /\ file.kind = "json" /\ file.json.t = "list"
     /\ \A i \in 1..Len(file.json.v) : LegacyOk(file.json.v[i]))
    => LET l == file.json.v
       IN  /\ call.exn = "none"
           /\ Keys(coffees) = {LegacyKey(l[i]) : i \in 1..Len(l)}
           /\ Len(coffees) = Cardinality({LegacyKey(l[i]) : i \in 1..Len(l)})
           /\ TotalSessions(coffees) = Len(l)
           /\ \A n \in 1..Len(coffees) :
                 LET k == coffees[n].key
                     first == CHOOSE i \in 1..Len(l) :
                                 /\ LegacyKey(l[i]) = k
                                 /\ \A j \in 1..(i - 1) : LegacyKey(l[j]) # k
                     info == l[first].v.coffee.v
                     bean == coffees[n].bean
                 IN  /\ bean.producer = info.producer.v
                     /\ bean.name = info.name.v
                     /\ bean.country = FieldOr(info, "country", "")
                     /\ bean.method = FieldOr(info, "method", "")
                     /\ bean.grind_size = FieldOr(info, "grind_size", "")
                     /\ bean.brew_sessions = SessionsWithKey(l, k)

\* a legacy list of three entries, two of one coffee in different casings and with
\* different sessions, has been migrated to two records
C9_Witness ==
    /\ call.op = "load_data"
    /\ file.kind = "json" /\ file.json.t = "list" /\ Len(file.json.v) = 3
    /\ \A i \in 1..3 : LegacyOk(file.json.v[i])
    /\ Len(coffees) = 2
    /\ \E n \in 1..2 :
          /\ Len(coffees[n].bean.brew_sessions) = 2
          /\ coffees[n].bean.brew_sessions[1] # coffees[n].bean.brew_sessions[2]
          /\ coffees[n].bean.producer # file.json.v[3].v.coffee.v.producer.v
          /\ coffees[n].key = LegacyKey(file.json.v[3])
          /\ coffees[n].bean.country = ""

\* C18 as claimed: after load_data has accepted a document, every key of the
\* collection is lower(producer) + "|" + lower(name) of the record stored
\* under it, and find_coffee_brews(record.producer, record.name) returns that
\* record.
C18_KeyConsistency ==
    (call.op = "load_data" /\ call.exn = "none")
        => \A i \in 1..Len(coffees) :
              /\ coffees[i].key = Lower(coffees[i].bean.producer) \o <<"|">>
                                      \o Lower(coffees[i].bean.name)
              /\ find_coffee_brews(coffees, coffees[i].bean.producer, coffees[i].bean.name)
                    = Found(coffees[i].key)

(***************************************************************************)
(* Claims about brew_timer, under SpecTimer                                *)
(***************************************************************************)

RECURSIVE SumSeq(_)
SumSeq(q) == IF q = <<>> THEN 0 ELSE Head(q) + SumSeq(Tail(q))

\* C4 as claimed: when brew_timer has returned, every entry is a non-negative
\* integer, the i-th entry is the whole-second gap between the i-th pour
\* signal and the previous mark, in pour order, and the entries sum to at
\* most the time from the start to the finish signal plus one second per entry.
C4_RecordedDurations ==
    pcMain = "returned" =>
        /\ \A i \in 1..Len(pours) : pours[i] \in Nat
        /\ \A i \in 1..Len(hist.signals) :
              pours[i] = (hist.signals[i] - hist.marks[i]) \div TicksPerSec
        /\ SumSeq(pours) * TicksPerSec
              <= (hist.finish - start_time) + Len(pours) * TicksPerSec

\* C5 as claimed: when brew_timer has returned after n pour signals, pours has
\* n + 1 entries and the last is the whole-second time from the last pour mark
\* to the finish signal.
C5_TrailingPour ==
    pcMain = "returned" =>
        /\ Len(pours) = Len(hist.signals) + 1
        /\ pours[Len(pours)] = (hist.finish - last_pour_time) \div TicksPerSec

\* C6: once brew_timer has returned the display thread has exited: it is at
\* its end in that state and in every later one, and prints nothing more.
C6_NoOrphanedDisplay ==
    [][pcMain' = "returned"
          => (pcDisp' = "done" /\ (pcMain = "returned" => disp' = disp))]_vars

\* brew_timer has returned after the display thread printed, and time has passed since
C6_Witness ==
    /\ pcMain = "returned"
    /\ disp.printed >= 2
    /\ hist.signals # <<>>
    /\ now > hist.finish + TicksPerSec

\* C12: the returned sequence is fixed by the foreground's own readings: a step
\* that is not a step of the foreground loop (a step of the display thread, or
\* time passing) leaves pours, start_time and last_pour_time as they were, and
\* a step that changes pours appends the whole seconds between the clock the
\* foreground reads at that step and last_pour_time, whatever the display
\* thread has read, computed or printed and wherever it stands; the entry of
\* the i-th pour signal is the whole seconds from the foreground's previous
\* mark to its reading at the signal.
C12_DisplayIndependence ==
    /\ [](\A i \in 1..Len(hist.signals) :
             pours[i] = (hist.signals[i] - hist.marks[i]) \div TicksPerSec)
    /\ [][/\ pcMain' = pcMain => UNCHANGED <<pours, start_time, last_pour_time>>
          /\ pours' # pours =>
                /\ pours' = Append(pours, (now - last_pour_time) \div TicksPerSec)
                /\ UNCHANGED <<pcDisp, disp, wake>>]_vars

\* brew_timer has returned two entries while the display thread, having printed, had
\* computed a pour time that is not the one recorded
C12_Witness ==
    /\ pcMain = "returned"
    /\ Len(pours) = 2
    /\ pours[1] > 0
    /\ disp.printed >= 2
    /\ disp.pour_elapsed # pours[1]
    /\ disp.pour_elapsed # pours[2]

\* C13: once the stop flag is set, the loop test of the display thread that
\* follows leaves the loop, and under fair scheduling brew_timer returns.
C13_TimerTerminates ==
    /\ [][(stop_timer /\ pcDisp = "test" /\ pcDisp' # pcDisp) => pcDisp' = "done"]_vars
    /\ (stop_timer ~> pcMain = "returned")

\* brew_timer has returned after a finish signal that came while the display thread
\* was in, or about to enter, a sleep that ended after the signal
C13_Witness ==
    /\ pcMain = "returned"
    /\ stop_timer
    /\ disp.printed >= 1
    /\ wake > hist.finish

\* C14: a step of the display thread writes none of start_time,
\* last_pour_time, stop_timer and pours; start_time is written only by the
\* foreground before the display thread is started; last_pour_time is written
\* only by the foreground and never decreases; stop_timer is written only by
\* the foreground and only from false to true.
C14_SingleWriter ==
    [][/\ (pcDisp' # pcDisp /\ pcDisp # "idle")
             => UNCHANGED <<start_time, last_pour_time, stop_timer, pours>>
       /\ disp' # disp => UNCHANGED <<start_time, last_pour_time, stop_timer, pours>>
       /\ start_time' # start_time => (pcMain = "idle" /\ pcDisp = "idle")
       /\ last_pour_time' # last_pour_time
             => (pcMain' # pcMain /\ (pcDisp' = pcDisp \/ pcDisp = "idle") /\ disp' = disp
                 /\ last_pour_time' > last_pour_time)
       /\ stop_timer' # stop_timer
             => (pcMain = "input" /\ pcMain' = "join" /\ pcDisp' = pcDisp /\ disp' = disp
                 /\ ~stop_timer /\ stop_timer')]_vars

\* the timer was started after time zero, the foreground has marked a pour after
\* the start and set the flag, and the display thread has read all three and printed
C14_Witness ==
    /\ stop_timer
    /\ start_time > 0
    /\ last_pour_time > start_time
    /\ disp.printed >= 2
    /\ disp.total_elapsed > disp.pour_elapsed
    /\ pcDisp = "done"

====
